---- MODULE Spec2Model ----
(***************************************************************************)
(* Model of ai_clinic_timesaver.py: a Streamlit script.  One render is one *)
(* execution of the script from its first line to its last; Streamlit      *)
(* re-executes the whole script on every user interaction.  The script's   *)
(* sections are modelled as consecutive steps of one sequential program    *)
(* (pc); an uncaught exception ends the run (pc = "aborted").              *)
(*                                                                         *)
(* Hours are fixed-point integers, in thousandths of an hour.  The random  *)
(* draws of np.random.uniform are taken from finite grids.                 *)
(***************************************************************************)
EXTENDS Integers, Sequences, FiniteSets, TLC

\* ------------------------------------------------------------------ inputs
\* The widgets of lines 67-71 clamp to [1,100], [10,1000], [1,50]; the
\* minima are the program's, the maxima bound the model to the low end of
\* each range.
MinClinicians == 1
MaxClinicSize == 2
MinPatients == 10
MaxPatients == 11
MinAdminHours == 1
MaxAdminHours == 2
\* Grid resolution of the draw U(0.25, 0.45) and of the per-clinician jitter.
USteps == 3
JitterSteps == 2

\* ------------------------------------------------------ program constants
\* np.random.uniform(0.25, 0.45), in thousandths.
ULow == 250
UHigh == 450
\* time_saved_per_week*0.8, time_saved_per_week*1.2, in tenths.
JitterLow == 8
JitterHigh == 12

FallbackTip == "Consider delegating repetitive admin tasks to save time."

Keys == {"time_saved_per_week", "total_time_saved", "tip"}

\* ------------------------------------------------------------ Python values
Num(n) == [t |-> "num", n |-> n, s |-> ""]
Str(s) == [t |-> "str", n |-> 0, s |-> s]
NoValue == [t |-> "none", n |-> 0, s |-> ""]

\* A Python object as returned by json.loads: a dict (d: key -> value), or
\* something that is not a dict (a JSON number, string, list or null).
Dict(d) == [kind |-> "dict", d |-> d]
NotADict == [kind |-> "scalar", d |-> <<>>]
NoObject == [kind |-> "unset", d |-> <<>>]

\* Tips the remote service may supply; the second holds a character that
\* Latin-1 cannot encode.
RemoteTipLatin1 == "Automate intake forms."
RemoteTipNonLatin1 == "Automate intake forms (U+2713)."
Latin1(v) == ~(v.t = "str" /\ v.s = RemoteTipNonLatin1)

RemoteValues(k) ==
    CASE k = "time_saved_per_week" ->
            {Num(3200), Num(0), Num(-1000), Str("3.2")}
      [] k = "total_time_saved" ->
            {Num(16000), Str("16 hours")}
      [] OTHER ->
            {Str(RemoteTipLatin1), Str(RemoteTipNonLatin1)}

AllRemoteValues == UNION {RemoteValues(k) : k \in Keys}

\* JSON objects the remote service may return: any subset of the three keys.
RemoteObjects ==
    UNION {{f \in [K -> AllRemoteValues] : \A k \in K : f[k] \in RemoteValues(k)}
           : K \in SUBSET Keys}

\* What client.chat.completions.create does: raise (network error, timeout,
\* non-2xx status), or return a message whose content is text that is not
\* JSON ("text"), or JSON text of some value ("json").
RemoteErrors == {"APIConnectionError", "APIStatusError"}
NoResponse == [kind |-> "notcalled", exc |-> "", json |-> NoObject]
Responses ==
    {[kind |-> "raise", exc |-> e, json |-> NoObject] : e \in RemoteErrors}
    \cup {[kind |-> "text", exc |-> "", json |-> NoObject]}
    \cup {[kind |-> "json", exc |-> "", json |-> NotADict]}
    \cup {[kind |-> "json", exc |-> "", json |-> Dict(f)] : f \in RemoteObjects}

\* ----------------------------------------------------------- environment
\* os.environ's entry for OPENAI_API_KEY: absent, empty, or a key.
Unset == "<unset>"
EnvValues == {Unset, "", "sk-test"}
Truthy(key) == key # Unset /\ key # ""

\* Variant: the client is built whether or not a key was read.
MakeClientAlways(key) == "OpenAI"
\* client = openai.OpenAI(api_key=OPENAI_API_KEY) if OPENAI_API_KEY else None
MakeClient(key) == IF Truthy(key) THEN "OpenAI" ELSE "None"

VARIABLES
    environ,              \* os.environ["OPENAI_API_KEY"]
    startKey,             \* its value when the process started
    pc,                   \* position of the script run
    OPENAI_API_KEY, client,
    clinic_size, patients_per_week, admin_hours_per_week,
    response,             \* behaviour of the remote service in this run
    udraw,                \* the draw of U(0.25,0.45), 0 when none was made
    insights, time_saved_per_week, total_time_saved, tip,
    notice,               \* the "OpenAI API unavailable" line was displayed
    remoteCalls,          \* calls of client.chat.completions.create in this run
    resolverCalls,        \* calls of get_ai_insights in this run
    draws,                \* calls of np.random.uniform in this run
    screen,               \* the three estimate lines
    df,                   \* the per-clinician sample
    chart,                \* the bars plotted
    pdf,                  \* the report handed to the download button
    raised,               \* the uncaught exception that ended the run
    confirmation          \* message displayed by a clicked button

vars == <<environ, startKey, pc, OPENAI_API_KEY, client, clinic_size,
          patients_per_week, admin_hours_per_week, response, udraw, insights,
          time_saved_per_week, total_time_saved, tip, notice, remoteCalls,
          resolverCalls, draws, screen, df, chart, pdf, raised, confirmation>>

\* ------------------------------------------------------------- arithmetic
Abs(n) == IF n < 0 THEN -n ELSE n

\* f"{x:.1f}": x rounded to one decimal (ties to even), in tenths of an hour.
Fmt1(n) ==
    LET q == Abs(n) \div 100
        r == Abs(n) % 100
        m == IF r > 50 \/ (r = 50 /\ q % 2 = 1) THEN q + 1 ELSE q
    IN  IF n < 0 THEN -m ELSE m

\* The grid of np.random.uniform(0.25, 0.45): values of [0.25, 0.45).
UDraws == {ULow + ((UHigh - ULow) * i) \div USteps : i \in 0 .. USteps - 1}

\* ------------------------------------------------------- get_ai_insights
\* Variant: the fallback estimate scaled by the patient count.
FallbackUsesPatients(cs, ppw, ah, u) ==
    [k \in Keys |->
        CASE k = "time_saved_per_week" -> Num((ah * u * ppw) \div 10)
          [] k = "total_time_saved" -> Num(((ah * u * ppw) \div 10) * cs)
          [] OTHER -> Str(FallbackTip)]
\* The fallback values (lines 102-109); u is the draw of U(0.25, 0.45), in
\* thousandths.  The function reads the globals, patients_per_week included.
Fallback(cs, ppw, ah, u) ==
    [k \in Keys |->
        CASE k = "time_saved_per_week" -> Num(ah * u)
          [] k = "total_time_saved" -> Num((ah * u) * cs)
          [] OTHER -> Str(FallbackTip)]

\* json.loads(gpt_output): raises on text that is not JSON, otherwise
\* returns the value the text denotes.
JsonLoads(resp) ==
    IF resp.kind = "text"
    THEN [exc |-> "JSONDecodeError", value |-> NoObject]
    ELSE [exc |-> "", value |-> resp.json]

\* The body of the try block (lines 89-98).
TryRemote(resp) ==
    IF resp.kind = "raise"
    THEN [exc |-> resp.exc, value |-> NoObject]
    ELSE JsonLoads(resp)

\* "except Exception" (line 99): every exception the try body can raise
\* derives from Exception.
ExceptionSubclasses == RemoteErrors \cup {"JSONDecodeError"}
\* Variant: "except json.JSONDecodeError".
CatchesOnlyJsonError(exc) == exc = "JSONDecodeError"
ExceptException(exc) == exc \in ExceptionSubclasses

\* Variant: a complete remote object has its total recomputed from
\* time_saved_per_week and the clinician count.
GetAiInsightsRecomputesTotal(cl, resp, cs, ppw, ah, u) ==
    LET try == TryRemote(resp) IN
    IF cl # "None" /\ try.exc = "" /\ try.value.kind = "dict"
       /\ DOMAIN try.value.d = Keys /\ try.value.d["time_saved_per_week"].t = "num"
    THEN [exc |-> "", invoked |-> TRUE, notice |-> FALSE, drew |-> FALSE,
          value |-> Dict([try.value.d EXCEPT !["total_time_saved"] =
                            Num(try.value.d["time_saved_per_week"].n * cs)])]
    ELSE IF cl # "None" /\ try.exc = ""
    THEN [exc |-> "", invoked |-> TRUE, notice |-> FALSE, drew |-> FALSE,
          value |-> try.value]
    ELSE [exc |-> "", invoked |-> cl # "None", notice |-> cl # "None",
          drew |-> TRUE, value |-> Dict(Fallback(cs, ppw, ah, u))]
\* Variant: the notice is displayed whenever the fallback is used.
GetAiInsightsNoticeAlways(cl, resp, cs, ppw, ah, u) ==
    LET try == TryRemote(resp) IN
    IF cl # "None" /\ try.exc = ""
    THEN [exc |-> "", invoked |-> TRUE, notice |-> FALSE, drew |-> FALSE,
          value |-> try.value]
    ELSE [exc |-> "", invoked |-> cl # "None", notice |-> TRUE,
          drew |-> TRUE, value |-> Dict(Fallback(cs, ppw, ah, u))]
\* get_ai_insights() (lines 86-109).  Result: the value returned (or the
\* exception that escaped), whether the remote service was invoked, whether
\* the notice was displayed, whether the fallback formula drew u.
GetAiInsights(cl, resp, cs, ppw, ah, u) ==
    IF cl # "None"
    THEN LET try == TryRemote(resp) IN
         IF try.exc = ""
         THEN [exc |-> "", invoked |-> TRUE, notice |-> FALSE, drew |-> FALSE,
               value |-> try.value]
         ELSE IF ExceptException(try.exc)
         THEN [exc |-> "", invoked |-> TRUE, notice |-> TRUE, drew |-> TRUE,
               value |-> Dict(Fallback(cs, ppw, ah, u))]
         ELSE [exc |-> try.exc, invoked |-> TRUE, notice |-> FALSE,
               drew |-> FALSE, value |-> NoObject]
    ELSE [exc |-> "", invoked |-> FALSE, notice |-> FALSE, drew |-> TRUE,
          value |-> Dict(Fallback(cs, ppw, ah, u))]

\* insights["time_saved_per_week"] etc. (lines 112-114): the exception the
\* lookups raise, "" when all three succeed.
LookupError(ins) ==
    IF ins.kind # "dict" THEN "TypeError"
    ELSE IF Keys \subseteq DOMAIN ins.d THEN "" ELSE "KeyError"

\* ------------------------------------------------------------ the sample
Label(i) == <<"Clinician", i>>

\* np.random.uniform(low, high) = low + (high - low) * r, r in [0,1);
\* r = k / JitterSteps.
Uniform(low, high, k) == low + ((high - low) * k) \div JitterSteps

\* time_saved_per_week*0.8 and time_saved_per_week*1.2 as computed.
SampleLow(tsw) == (tsw * JitterLow) \div 10
SampleHigh(tsw) == (tsw * JitterHigh) \div 10

\* Variant: the lower end taken as 0.7 * time_saved_per_week.
SampleLowFromSeventy(tsw, ks) ==
    [i \in DOMAIN ks |->
        [Clinician |-> Label(i),
         Hours |-> Uniform((tsw * 7) \div 10, SampleHigh(tsw), ks[i])]]
\* The DataFrame of lines 122-125: one row per clinician, in order.
Sample(tsw, ks) ==
    [i \in DOMAIN ks |->
        [Clinician |-> Label(i),
         Hours |-> Uniform(SampleLow(tsw), SampleHigh(tsw), ks[i])]]

JitterDraws(cs) == [1 .. cs -> 0 .. JitterSteps - 1]

\* ------------------------------------------------------------ create_pdf
NoPdf == [facts |-> <<>>, rows |-> <<>>]
NoScreen == [tsw |-> 0, total |-> 0, tip |-> NoValue, shown |-> FALSE]

\* Variant: the report draws its own sample instead of using df.
CreatePdfFreshSample(cs, ppw, ah, tsw, total, tp, d) ==
    [facts |-> <<cs, ppw, ah, Fmt1(tsw), Fmt1(total), tp>>,
     rows |-> [i \in DOMAIN d |->
                 <<d[i].Clinician,
                   Fmt1(Uniform(SampleLow(tsw), SampleHigh(tsw), 0))>>]]
\* create_pdf (lines 145-164): six fact lines, then one line per row of df.
CreatePdf(cs, ppw, ah, tsw, total, tp, d) ==
    [facts |-> <<cs, ppw, ah, Fmt1(tsw), Fmt1(total), tp>>,
     rows |-> [i \in DOMAIN d |-> <<d[i].Clinician, Fmt1(d[i].Hours)>>]]

Buttons == {"Sign Up for Heidi", "Share on LinkedIn", "Share on Twitter",
            "Copy Referral Link"}

\* --------------------------------------------------------------- the run
NoRaise == [exc |-> "", line |-> 0]

\* State of the script's globals before its first statement has run.
Fresh ==
    /\ OPENAI_API_KEY = Unset
    /\ client = "None"
    /\ clinic_size = MinClinicians
    /\ patients_per_week = MinPatients
    /\ admin_hours_per_week = MinAdminHours
    /\ response = NoResponse
    /\ udraw = 0
    /\ insights = NoObject
    /\ time_saved_per_week = NoValue
    /\ total_time_saved = NoValue
    /\ tip = NoValue
    /\ notice = FALSE
    /\ remoteCalls = 0
    /\ resolverCalls = 0
    /\ draws = 0
    /\ screen = NoScreen
    /\ df = <<>>
    /\ chart = <<>>
    /\ pdf = NoPdf
    /\ raised = NoRaise
    /\ confirmation = ""

\* The process has started; the script has not yet run.
Init ==
    /\ environ \in EnvValues
    /\ startKey = environ
    /\ pc = "start"
    /\ Fresh

\* os.environ is changed while the process runs.
SetEnviron ==
    /\ \E v \in EnvValues \ {environ} : environ' = v
    /\ UNCHANGED <<startKey, pc, OPENAI_API_KEY, client, clinic_size,
                   patients_per_week, admin_hours_per_week, response, udraw,
                   insights, time_saved_per_week, total_time_saved, tip,
                   notice, remoteCalls, resolverCalls, draws, screen, df,
                   chart, pdf, raised, confirmation>>

\* Lines 1-84: a run of the script begins (the first run, or a re-run after
\* a user interaction).  Every global is rebound: the key is read from the
\* environment, the client is built, the three widgets are read.
ScriptStart ==
    /\ pc \in {"start", "done", "aborted"}
    /\ OPENAI_API_KEY' = environ
    /\ client' = MakeClient(environ)
    /\ clinic_size' \in MinClinicians .. MaxClinicSize
    /\ patients_per_week' \in MinPatients .. MaxPatients
    /\ admin_hours_per_week' \in MinAdminHours .. MaxAdminHours
    /\ response' = NoResponse
    /\ udraw' = 0
    /\ insights' = NoObject
    /\ time_saved_per_week' = NoValue
    /\ total_time_saved' = NoValue
    /\ tip' = NoValue
    /\ notice' = FALSE
    /\ remoteCalls' = 0
    /\ resolverCalls' = 0
    /\ draws' = 0
    /\ screen' = NoScreen
    /\ df' = <<>>
    /\ chart' = <<>>
    /\ pdf' = NoPdf
    /\ raised' = NoRaise
    /\ confirmation' = ""
    /\ pc' = "resolve"
    /\ UNCHANGED <<environ, startKey>>

\* Line 111: insights = get_ai_insights().
Resolve ==
    /\ pc = "resolve"
    /\ \E resp \in (IF client = "None" THEN {NoResponse} ELSE Responses),
          u \in UDraws :
         LET r == GetAiInsights(client, resp, clinic_size, patients_per_week,
                                admin_hours_per_week, u)
         IN  /\ response' = resp
             /\ udraw' = IF r.drew THEN u ELSE 0
             /\ draws' = IF r.drew THEN draws + 1 ELSE draws
             /\ notice' = r.notice
             /\ remoteCalls' = IF r.invoked THEN remoteCalls + 1 ELSE remoteCalls
             /\ resolverCalls' = resolverCalls + 1
             /\ insights' = r.value
             /\ IF r.exc = ""
                THEN /\ pc' = "unpack"
                     /\ raised' = raised
                ELSE /\ pc' = "aborted"
                     /\ raised' = [exc |-> r.exc, line |-> 111]
    /\ UNCHANGED <<environ, startKey, OPENAI_API_KEY, client, clinic_size,
                   patients_per_week, admin_hours_per_week,
                   time_saved_per_week, total_time_saved, tip, screen, df,
                   chart, pdf, confirmation>>

\* Lines 112-114: the three lookups in insights.
Unpack ==
    /\ pc = "unpack"
    /\ IF LookupError(insights) = ""
       THEN /\ time_saved_per_week' = insights.d["time_saved_per_week"]
            /\ total_time_saved' = insights.d["total_time_saved"]
            /\ tip' = insights.d["tip"]
            /\ pc' = "text"
            /\ raised' = raised
       ELSE /\ pc' = "aborted"
            /\ raised' = [exc |-> LookupError(insights), line |-> 112]
            /\ UNCHANGED <<time_saved_per_week, total_time_saved, tip>>
    /\ UNCHANGED <<environ, startKey, OPENAI_API_KEY, client, clinic_size,
                   patients_per_week, admin_hours_per_week, response, udraw,
                   insights, notice, remoteCalls, resolverCalls, draws,
                   screen, df, chart, pdf, confirmation>>

\* Lines 116-118: the three estimate lines; ":.1f" raises ValueError on a
\* value that is not a number.
ShowEstimate ==
    /\ pc = "text"
    /\ IF time_saved_per_week.t = "num" /\ total_time_saved.t = "num"
       THEN /\ screen' = [tsw |-> Fmt1(time_saved_per_week.n),
                          total |-> Fmt1(total_time_saved.n),
                          tip |-> tip, shown |-> TRUE]
            /\ pc' = "chart"
            /\ raised' = raised
       ELSE /\ pc' = "aborted"
            /\ raised' = [exc |-> "ValueError",
                          line |-> IF time_saved_per_week.t = "num"
                                   THEN 117 ELSE 116]
            /\ screen' = screen
    /\ UNCHANGED <<environ, startKey, OPENAI_API_KEY, client, clinic_size,
                   patients_per_week, admin_hours_per_week, response, udraw,
                   insights, time_saved_per_week, total_time_saved, tip,
                   notice, remoteCalls, resolverCalls, draws, df, chart, pdf,
                   confirmation>>

\* Lines 122-142: the sample is drawn and plotted.  With a negative
\* time_saved_per_week the call is np.random.uniform(low, high) with
\* high < low, which numpy leaves undefined ("may eventually raise an
\* error"): it returns low + (high - low) * r, or it raises.
Chart ==
    /\ pc = "chart"
    /\ \/ /\ \E ks \in JitterDraws(clinic_size) :
                df' = Sample(time_saved_per_week.n, ks)
          /\ chart' = [i \in DOMAIN df' |->
                         [x |-> df'[i].Clinician, y |-> df'[i].Hours,
                          text |-> Fmt1(df'[i].Hours)]]
          /\ draws' = draws + 1
          /\ pc' = "export"
          /\ raised' = raised
       \/ /\ time_saved_per_week.n < 0
          /\ pc' = "aborted"
          /\ raised' = [exc |-> "ValueError", line |-> 124]
          /\ UNCHANGED <<df, chart, draws>>
    /\ UNCHANGED <<environ, startKey, OPENAI_API_KEY, client, clinic_size,
                   patients_per_week, admin_hours_per_week, response, udraw,
                   insights, time_saved_per_week, total_time_saved, tip,
                   notice, remoteCalls, resolverCalls, screen, pdf,
                   confirmation>>

\* Lines 166-172: the report is built and handed to the download button.
\* encode('latin1') raises on a tip outside Latin-1.
Export ==
    /\ pc = "export"
    /\ IF Latin1(tip)
       THEN /\ pdf' = CreatePdf(clinic_size, patients_per_week,
                                admin_hours_per_week, time_saved_per_week.n,
                                total_time_saved.n, tip, df)
            /\ pc' = "cta"
            /\ raised' = raised
       ELSE /\ pc' = "aborted"
            /\ raised' = [exc |-> "UnicodeEncodeError", line |-> 166]
            /\ pdf' = pdf
    /\ UNCHANGED <<environ, startKey, OPENAI_API_KEY, client, clinic_size,
                   patients_per_week, admin_hours_per_week, response, udraw,
                   insights, time_saved_per_week, total_time_saved, tip,
                   notice, remoteCalls, resolverCalls, draws, screen, df,
                   chart, confirmation>>

\* Lines 175-188: the call-to-action section; the button whose click caused
\* this run, if any, displays its confirmation.
CallToAction ==
    /\ pc = "cta"
    /\ confirmation' \in Buttons \cup {""}
    /\ pc' = "done"
    /\ UNCHANGED <<environ, startKey, OPENAI_API_KEY, client, clinic_size,
                   patients_per_week, admin_hours_per_week, response, udraw,
                   insights, time_saved_per_week, total_time_saved, tip,
                   notice, remoteCalls, resolverCalls, draws, screen, df,
                   chart, pdf, raised>>

Next ==
    \/ SetEnviron
    \/ ScriptStart
    \/ Resolve
    \/ Unpack
    \/ ShowEstimate
    \/ Chart
    \/ Export
    \/ CallToAction

Spec == Init /\ [][Next]_vars

\* ------------------------------------------------------------ vocabulary
\* get_ai_insights has been called in this run and has returned.
Returned == resolverCalls = 1 /\ raised.line # 111

\* The sample has been drawn and plotted in this run.
ChartReached == pc \in {"export", "cta", "done"} \/ (pc = "aborted" /\ raised.line > 124)

\* The report has been built in this run.
Exported == pc \in {"cta", "done"}

IsObject(resp) == resp.kind = "json" /\ resp.json.kind = "dict"
CompleteObject(resp) == IsObject(resp) /\ DOMAIN resp.json.d = Keys
MissingKeys(resp) == IsObject(resp) /\ ~(Keys \subseteq DOMAIN resp.json.d)

\* The failure classes of the remote path: the call raises (network error,
\* timeout, non-2xx), the content is not JSON, the JSON is not an object,
\* the object lacks one of the three keys.
FailedRemote(resp) ==
    \/ resp.kind = "raise"
    \/ resp.kind = "text"
    \/ (resp.kind = "json" /\ resp.json.kind # "dict")
    \/ MissingKeys(resp)

FallbackResult ==
    Dict(Fallback(clinic_size, patients_per_week, admin_hours_per_week, udraw))

Min(a, b) == IF a < b THEN a ELSE b
Max(a, b) == IF a < b THEN b ELSE a

\* ------------------------------------------------------------------ claims

\* C1: get_ai_insights is total: whatever the remote service does (raises,
\* returns text that is not JSON, returns JSON of any shape), and with or
\* without a client, the call returns a value to line 111 and never raises.
GetAiInsightsTotal ==
    [][(pc = "resolve" /\ pc' # "resolve")
         => (pc' = "unpack" /\ raised' = NoRaise /\ insights'.kind # "unset"
             /\ resolverCalls' = 1)]_vars
\* The remote call raised and get_ai_insights still returned a value.
C1Witness ==
    /\ pc = "unpack"
    /\ response.kind = "raise"
    /\ insights.kind = "dict"

\* C2 (as claimed): with a client, whenever the remote path fails in one of
\* the listed ways (missing keys included), the result used by the run is
\* the local fallback result.
FallbackOnEveryRemoteFailure ==
    (Returned /\ client # "None" /\ FailedRemote(response))
        => (udraw \in UDraws /\ insights = FallbackResult)

\* C3 (as claimed): a run whose remote call fails in one of the listed ways
\* is never aborted by an exception.
FailedRemoteNeverAborts ==
    (remoteCalls = 1 /\ FailedRemote(response)) => pc # "aborted"

\* C4: with no credential, the result has total_time_saved =
\* time_saved_per_week * clinician_count, 0.25*admin_hours <=
\* time_saved_per_week <= 0.45*admin_hours, the fixed tip, and is the same
\* whatever patients_per_week is.
FallbackWithoutCredential ==
    (~Truthy(OPENAI_API_KEY) /\ Returned) =>
        /\ insights.kind = "dict"
        /\ DOMAIN insights.d = Keys
        /\ insights.d["time_saved_per_week"].t = "num"
        /\ insights.d["total_time_saved"].t = "num"
        /\ insights.d["total_time_saved"].n =
              insights.d["time_saved_per_week"].n * clinic_size
        /\ ULow * admin_hours_per_week <= insights.d["time_saved_per_week"].n
        /\ insights.d["time_saved_per_week"].n <= UHigh * admin_hours_per_week
        /\ insights.d["tip"] = Str(FallbackTip)
        /\ \A p \in MinPatients .. MaxPatients :
              insights.d = Fallback(clinic_size, p, admin_hours_per_week, udraw)
\* A fallback result without credential, for several clinicians and the
\* larger patient count.
C4Witness ==
    /\ ~Truthy(OPENAI_API_KEY)
    /\ Returned
    /\ clinic_size = MaxClinicSize
    /\ patients_per_week = MaxPatients
    /\ admin_hours_per_week = MaxAdminHours
    /\ insights.d["time_saved_per_week"].n > ULow * admin_hours_per_week

\* C5: with a client, when the remote returns a JSON object with the three
\* keys, get_ai_insights returns exactly that object: no recomputation, no
\* fallback draw, no notice, no check of the product relation.
RemoteObjectVerbatim ==
    (client # "None" /\ Returned /\ CompleteObject(response)) =>
        /\ insights = response.json
        /\ ~notice
        /\ udraw = 0
        /\ (pc = "unpack" => draws = 0)
\* A remote object whose total is not time_saved_per_week * clinician_count
\* has been returned unchanged.
C5Witness ==
    /\ pc = "text"
    /\ CompleteObject(response)
    /\ insights = response.json
    /\ time_saved_per_week.t = "num"
    /\ total_time_saved.t = "num"
    /\ total_time_saved.n # time_saved_per_week.n * clinic_size

\* C6: in a run where client is None the remote service is never invoked,
\* no notice is displayed, and the result is the local fallback result.
NoClientNoRemote ==
    (pc # "start" /\ client = "None") =>
        /\ remoteCalls = 0
        /\ response = NoResponse
        /\ ~notice
        /\ (resolverCalls = 1 => (Returned /\ udraw \in UDraws
                                    /\ insights = FallbackResult))
\* A run without client that has run to its end.
C6Witness ==
    /\ pc = "done"
    /\ client = "None"
    /\ insights = FallbackResult
    /\ pdf # NoPdf

\* C7 (as claimed): the notice is displayed if and only if the remote path
\* was attempted and failed, in any failure class (missing keys included).
NoticeIffRemoteFailed ==
    Returned => (notice <=> (remoteCalls = 1 /\ FailedRemote(response)))

\* C8 (as claimed): whichever path produced the result (remote values zero
\* or negative included), the sample has clinician_count entries labelled
\* Clinician 1..clinician_count in order, each with
\* 0.8*time_saved_per_week <= hours <= 1.2*time_saved_per_week.
SampleWithinLowHigh ==
    ChartReached =>
        /\ Len(df) = clinic_size
        /\ \A i \in 1 .. Len(df) :
              /\ df[i].Clinician = Label(i)
              /\ SampleLow(time_saved_per_week.n) <= df[i].Hours
              /\ df[i].Hours <= SampleHigh(time_saved_per_week.n)
\* C8 (amended): the same, with each hours value between
\* 0.8*time_saved_per_week and 1.2*time_saved_per_week in either order
\* (for a negative time_saved_per_week, 1.2*t <= hours <= 0.8*t).
SampleBetweenEndpoints ==
    ChartReached =>
        /\ Len(df) = clinic_size
        /\ DOMAIN chart = DOMAIN df
        /\ \A i \in 1 .. Len(df) :
              /\ df[i].Clinician = Label(i)
              /\ chart[i].x = Label(i)
              /\ chart[i].y = df[i].Hours
              /\ Min(SampleLow(time_saved_per_week.n),
                     SampleHigh(time_saved_per_week.n)) <= df[i].Hours
              /\ df[i].Hours <= Max(SampleLow(time_saved_per_week.n),
                                    SampleHigh(time_saved_per_week.n))
\* A sample around a negative remote value, for several clinicians, with a
\* value strictly inside the range.
C8Witness ==
    /\ ChartReached
    /\ time_saved_per_week.n < 0
    /\ Len(df) = MaxClinicSize
    /\ \E i \in 1 .. Len(df) :
          /\ df[i].Hours < SampleLow(time_saved_per_week.n)
          /\ df[i].Hours > SampleHigh(time_saved_per_week.n)

\* C9: the report holds the sample that was plotted (not a regenerated
\* one, and create_pdf draws nothing) and the estimate displayed in the
\* text lines; get_ai_insights is called exactly once in the run.
ReportShowsWhatScreenShows ==
    Exported =>
        /\ Len(pdf.rows) = clinic_size
        /\ pdf.rows = [i \in DOMAIN chart |-> <<chart[i].x, chart[i].text>>]
        /\ pdf.facts = <<clinic_size, patients_per_week, admin_hours_per_week,
                         screen.tsw, screen.total, screen.tip>>
        /\ screen.shown
        /\ screen.tsw = Fmt1(insights.d["time_saved_per_week"].n)
        /\ screen.total = Fmt1(insights.d["total_time_saved"].n)
        /\ screen.tip = insights.d["tip"]
        /\ resolverCalls = 1
        /\ draws = (IF udraw = 0 THEN 1 ELSE 2)
\* A report of a sample whose rows differ from one another after rounding.
C9Witness ==
    /\ Exported
    /\ Len(pdf.rows) = MaxClinicSize
    /\ \E i, j \in 1 .. Len(pdf.rows) : pdf.rows[i][2] # pdf.rows[j][2]

\* C10 (as claimed): in a process that started with no credential, the
\* remote service is never invoked in any run, even if the environment
\* value is set later.
NoCredentialAtStartNoRemoteEver ==
    ~Truthy(startKey) => remoteCalls = 0
\* C10 (amended): the credential is read at the start of every run of the
\* script; in a run whose read found no credential the client is None and
\* the remote service is not invoked, whatever the environment holds later.
NoCredentialAtRunStartNoRemote ==
    pc # "start" =>
        /\ (client = "None" <=> ~Truthy(OPENAI_API_KEY))
        /\ (remoteCalls = 1 => Truthy(OPENAI_API_KEY))
        /\ (~Truthy(OPENAI_API_KEY) => remoteCalls = 0)
\* A run that read no credential goes on without the remote service
\* although the environment holds a key by now.
C10Witness ==
    /\ pc = "done"
    /\ ~Truthy(OPENAI_API_KEY)
    /\ Truthy(environ)
    /\ ~Truthy(startKey)
    /\ remoteCalls = 0

====
